---- MODULE Spec2Model ----
(***************************************************************************)
(* CNPJ lookup application: src/public/script.js (UI controller, rate      *)
(* limiter, cache, validator, external API client, mapper, handler) and    *)
(* src/api/cnpj.js (the plain API handler).                                *)
(*                                                                         *)
(* Strings are sequences of one-character strings; times are milliseconds. *)
(***************************************************************************)
EXTENDS Integers, Sequences, FiniteSets, Bags, TLC

VARIABLES
  now,           \* Date.now()
  rateLimitMap,  \* script.js:719  Map key -> timestamp
  requestCache,  \* script.js:718  Map cnpj -> {data, timestamp}
  rlLast,        \* the last checkRateLimit call: client, time, result, requestCount
  rlWindow,      \* per client: start of its current 60 s window and grants in it
  cacheLast,     \* the last CacheManager operation and what it returned
  cacheSets,     \* per key: the value and time of the last set since a clear
  input,         \* the text handed to the validators
  verdict,       \* what the validators answered, and for which text
  nodeEnv,       \* process.env.NODE_ENV
  inflight,      \* bag of handler invocations suspended in an await
  lastResp,      \* the response sent last, with the request and upstream record behind it
  lastStore,     \* the records sent with cached: false and when, the most recent last
  page,          \* the DOM: input value, error message, result, loading, button
  searches,      \* the searchCNPJ invocations suspended in an await
  issued,        \* how many searchCNPJ invocations have begun
  lastDone       \* the search that ended last: how it failed, the requests it made

vars == <<now, rateLimitMap, requestCache, rlLast, rlWindow, cacheLast, cacheSets,
         input, verdict, nodeEnv, inflight, lastResp, lastStore,
         page, searches, issued, lastDone>>

rateVars == <<rateLimitMap, rlLast, rlWindow>>
cacheVars == <<requestCache, cacheLast, cacheSets>>
validatorVars == <<input, verdict>>
serverVars == <<nodeEnv, inflight, lastResp, lastStore>>
uiVars == <<page, searches, issued, lastDone>>

-----------------------------------------------------------------------------
(* Characters and strings *)

DigitChar == <<"0", "1", "2", "3", "4", "5", "6", "7", "8", "9">>

DigitChars == {DigitChar[i] : i \in 1..10}

\* the numeric value JavaScript gives a digit character (charAt(i) * n, parseInt)
DigitVal(c) == CHOOSE d \in 0..9 : DigitChar[d + 1] = c

\* a string of digits, written as the sequence of its digit values
Str(ns) == [i \in 1..Len(ns) |-> DigitChar[ns[i] + 1]]

\* s.replace(/\D/g, "")
StripNonDigits(s) == SelectSeq(s, LAMBDA c : c \in DigitChars)

\* s.substring(0, n)
Substring0(s, n) == IF Len(s) <= n THEN s ELSE SubSeq(s, 1, n)

\* /^(\d)\1+$/.test(s)
AllSameDigit(s) ==
  /\ Len(s) >= 2
  /\ s[1] \in DigitChars
  /\ \A i \in 1..Len(s) : s[i] = s[1]

\* key.startsWith(p)
StartsWith(s, p) == Len(p) <= Len(s) /\ \A i \in 1..Len(p) : s[i] = p[i]

\* the decimal text of a non-negative integer (template literal `${n}`)
RECURSIVE DecStr(_)
DecStr(n) == IF n < 10 THEN <<DigitChar[n + 1]>>
             ELSE DecStr(n \div 10) \o <<DigitChar[(n % 10) + 1]>>

-----------------------------------------------------------------------------
(* Configuration, script.js:710-715 *)

MAX_REQUESTS_PER_MINUTE == 10
TIMEOUT_MS == 10000
CACHE_TTL == 5 * 60 * 1000
WINDOW_MS == 60000

-----------------------------------------------------------------------------
(* CNPJ validation: the server copy (script.js:808-855) *)

\* the for loop of lines 828-831 and 843-846: soma += numeros.charAt(k) * pos--
RECURSIVE SomaServer(_, _, _, _)
SomaServer(numeros, k, pos, soma) ==
  IF k > Len(numeros) THEN soma
  ELSE SomaServer(numeros, k + 1,
                  IF pos - 1 < 2 THEN 9 ELSE pos - 1,
                  soma + DigitVal(numeros[k]) * pos)

ResultadoServerOff(soma) == IF soma % 11 < 1 THEN 0 ELSE 11 - (soma % 11)

\* soma % 11 < 2 ? 0 : 11 - (soma % 11)
ResultadoServer(soma) == IF soma % 11 < 2 THEN 0 ELSE 11 - (soma % 11)

Invalid(msg) == [isValid |-> FALSE, cleaned |-> <<>>, error |-> msg]

ValidateServer(cnpj) ==
  LET cleaned == StripNonDigits(cnpj)
      tamanho == Len(cleaned) - 2
      r1 == ResultadoServer(SomaServer(SubSeq(cleaned, 1, tamanho), 1, tamanho - 7, 0))
      r2 == ResultadoServer(SomaServer(SubSeq(cleaned, 1, tamanho + 1), 1, tamanho + 1 - 7, 0))
  IN  IF Len(cleaned) # 14 THEN Invalid("CNPJ deve conter 14 digitos")
      ELSE IF AllSameDigit(cleaned) THEN Invalid("CNPJ invalido")
      ELSE IF r1 # DigitVal(cleaned[tamanho + 1]) THEN Invalid("CNPJ invalido")
      ELSE IF r2 # DigitVal(cleaned[tamanho + 2]) THEN Invalid("CNPJ invalido")
      ELSE [isValid |-> TRUE, cleaned |-> cleaned, error |-> ""]

(* CNPJ validation: the client copy (script.js:87-136) *)

RECURSIVE SomaClient(_, _, _, _)
SomaClient(numeros, k, pos, soma) ==
  IF k > Len(numeros) THEN soma
  ELSE SomaClient(numeros, k + 1,
                  IF pos - 1 < 2 THEN 9 ELSE pos - 1,
                  soma + DigitVal(numeros[k]) * pos)

ResultadoClientOff(soma) == IF soma % 11 < 1 THEN 0 ELSE 11 - (soma % 11)

ResultadoClient(soma) == IF soma % 11 < 2 THEN 0 ELSE 11 - (soma % 11)

validateCNPJ(text) ==
  LET cnpj == StripNonDigits(text)
      tamanho == Len(cnpj) - 2
      r1 == ResultadoClient(SomaClient(SubSeq(cnpj, 1, tamanho), 1, tamanho - 7, 0))
      r2 == ResultadoClient(SomaClient(SubSeq(cnpj, 1, tamanho + 1), 1, tamanho + 1 - 7, 0))
  IN  IF Len(cnpj) # 14 THEN FALSE
      ELSE IF AllSameDigit(cnpj) THEN FALSE
      ELSE IF r1 # DigitVal(cnpj[tamanho + 1]) THEN FALSE
      ELSE IF r2 # DigitVal(cnpj[tamanho + 2]) THEN FALSE
      ELSE TRUE

-----------------------------------------------------------------------------
(* JavaScript Map operations *)

EmptyMap == <<>>

\* map.set(k, v)
MapSet(map, k, v) == [x \in DOMAIN map \cup {k} |-> IF x = k THEN v ELSE map[x]]

\* the map without the keys of `gone` (map.delete(k) for each)
MapDelete(map, gone) == [x \in DOMAIN map \ gone |-> map[x]]

-----------------------------------------------------------------------------
(* Rate limiter: SecurityMiddleware.checkRateLimit, script.js:736-757 *)

IP_A == <<"1", ".", "2", ".", "3", ".", "4">>
IP_B == IP_A \o <<"5">>

\* `${ip}-${now}`
RateKey(ip, t) == ip \o <<"-">> \o DecStr(t)

\* lines 741-745: delete every entry with timestamp < windowStart
PurgeOld(map, windowStart) ==
  MapDelete(map, {k \in DOMAIN map : map[k] < windowStart})

RequestCountPrefixFree(map, ip, windowStart) ==
  Cardinality({k \in DOMAIN map : k = RateKey(ip, map[k]) /\ map[k] >= windowStart})

\* lines 747-749: entries whose key starts with ip and timestamp > windowStart
RequestCount(map, ip, windowStart) ==
  Cardinality({k \in DOMAIN map : StartsWith(k, ip) /\ map[k] > windowStart})

CheckRateLimitRecordsRejected(map, ip, t) ==
  LET windowStart == t - WINDOW_MS
      purged == PurgeOld(map, windowStart)
  IN  [allowed |-> RequestCount(purged, ip, windowStart) < MAX_REQUESTS_PER_MINUTE,
       count |-> RequestCount(purged, ip, windowStart),
       map |-> MapSet(purged, RateKey(ip, t), t)]

CheckRateLimit(map, ip, t) ==
  LET windowStart == t - WINDOW_MS
      purged == PurgeOld(map, windowStart)
      requestCount == RequestCount(purged, ip, windowStart)
  IN  IF requestCount >= MAX_REQUESTS_PER_MINUTE
      THEN [allowed |-> FALSE, count |-> requestCount, map |-> purged]
      ELSE [allowed |-> TRUE, count |-> requestCount,
            map |-> MapSet(purged, RateKey(ip, t), t)]

-----------------------------------------------------------------------------
(* Cache: CacheManager, script.js:777-803.  An absent value (null) is the  *)
(* empty sequence, a present value v the one-element sequence <<v>>.       *)

Null == <<>>
Some(v) == <<v>>

CacheGetLate(cache, cnpj, t) ==
  IF cnpj \in DOMAIN cache /\ t - cache[cnpj].timestamp <= CACHE_TTL
  THEN [value |-> Some(cache[cnpj].data), cache |-> cache]
  ELSE [value |-> Null, cache |-> MapDelete(cache, {cnpj})]

\* get: the entry's data while now - timestamp < CACHE_TTL; otherwise the
\* entry, if any, is deleted and null returned
CacheGet(cache, cnpj, t) ==
  IF cnpj \in DOMAIN cache /\ t - cache[cnpj].timestamp < CACHE_TTL
  THEN [value |-> Some(cache[cnpj].data), cache |-> cache]
  ELSE [value |-> Null, cache |-> MapDelete(cache, {cnpj})]

CacheSetFirstWins(cache, cnpj, data, t) ==
  IF cnpj \in DOMAIN cache THEN cache
  ELSE MapSet(cache, cnpj, [data |-> data, timestamp |-> t])

\* CacheManager.set, script.js:794-799
CacheSet(cache, cnpj, data, t) == MapSet(cache, cnpj, [data |-> data, timestamp |-> t])

CacheClear(cache) == EmptyMap

\* the periodic sweep, script.js:1206-1221
SweepCache(cache, t) ==
  MapDelete(cache, {k \in DOMAIN cache : t - cache[k].timestamp > CACHE_TTL})

SweepRateLimit(map, t) == MapDelete(map, {k \in DOMAIN map : map[k] < t - WINDOW_MS})

-----------------------------------------------------------------------------
(* Error messages and response texts are sequences of words; a word that   *)
(* the handler searches for (message.includes) is a word of its own.       *)

Includes(msg, word) == \E i \in DOMAIN msg : msg[i] = word

\* `${response.status}`
StatusText(status) ==
  CASE status = 200 -> "200" [] status = 404 -> "404" [] status = 429 -> "429"
    [] status = 408 -> "408" [] status = 500 -> "500" [] status = 503 -> "503"

\* response.ok
IsOk(status) == status >= 200 /\ status <= 299

-----------------------------------------------------------------------------
(* External API client: ExternalAPIClient.fetchCNPJData, script.js:860-900 *)

\* line 883
UpstreamErrorMessage(status, body) ==
  <<"API externa retornou status ", StatusText(status), ": ">> \o body

\* line 894
TimeoutMessage == <<"Timeout", " na consulta da API externa">>

\* the message of the error the call throws (lines 890-898): an AbortError
\* becomes the Timeout error, any other error is rethrown as it is
FetchThrown(name, message) == IF name = "AbortError" THEN TimeoutMessage ELSE message

-----------------------------------------------------------------------------
(* Data mapper.  A raw record is [cnpj, raiz, razao, socios]: the fields   *)
(* estabelecimento.cnpj, cnpj_raiz, razao_social (empty when missing) and  *)
(* the names of socios (has = FALSE when socios is missing).               *)

\* a || b on strings
OrElse(a, b) == IF a # <<>> THEN a ELSE b

RECURSIVE MapNames(_, _)
MapNames(names, missing) ==
  IF names = <<>> THEN <<>>
  ELSE <<IF Head(names) # "" THEN Head(names) ELSE missing>> \o MapNames(Tail(names), missing)

\* DataMapper.mapMembers, script.js:981-994
MapMembers(socios) ==
  IF ~socios.has THEN <<>>
  ELSE SelectSeq(MapNames(socios.names, ""), LAMBDA n : n # "")

\* DataMapper.mapToFrontendStructure, script.js:906-962
MapToFrontendStructure(apiData) ==
  [taxId |-> OrElse(apiData.cnpj, apiData.raiz),
   name |-> apiData.razao,
   members |-> MapMembers(apiData.socios)]

\* mapDataToFrontendStructure, api/cnpj.js:96-221
MapDataToFrontendStructure(apiData) ==
  [taxId |-> OrElse(apiData.cnpj, apiData.raiz),
   name |-> IF apiData.razao # "" THEN apiData.razao ELSE "Nao informado",
   members |-> IF ~apiData.socios.has THEN <<>>
               ELSE MapNames(apiData.socios.names, "Nao informado")]

-----------------------------------------------------------------------------
(* Responses.  status 0: nothing sent.  ended: res.end() with no body.     *)
(* cached is "true", "false" or "absent"; data and details are Null or     *)
(* Some(value).                                                            *)

\* script.js:1083-1092
ScriptHeaders ==
  {<<"Access-Control-Allow-Origin", "*">>,
   <<"Access-Control-Allow-Methods", "GET, OPTIONS">>,
   <<"Access-Control-Allow-Headers", "Content-Type, Authorization, X-Requested-With">>,
   <<"Access-Control-Max-Age", "86400">>,
   <<"X-Content-Type-Options", "nosniff">>,
   <<"X-Frame-Options", "DENY">>,
   <<"X-XSS-Protection", "1; mode=block">>,
   <<"Referrer-Policy", "strict-origin-when-cross-origin">>}

\* api/cnpj.js:3-5
ApiHeaders ==
  {<<"Access-Control-Allow-Origin", "*">>,
   <<"Access-Control-Allow-Methods", "GET, OPTIONS">>,
   <<"Access-Control-Allow-Headers", "Content-Type, Authorization">>}

\* res.status(200).end()
EndResponse(headers) ==
  [status |-> 200, ended |-> TRUE, error |-> FALSE, message |-> <<>>,
   data |-> Null, cached |-> "absent", details |-> Null, headers |-> headers]

\* res.status(code).json({error: true, message, details})
ErrorResponse(headers, code, message, details) ==
  [status |-> code, ended |-> FALSE, error |-> TRUE, message |-> message,
   data |-> Null, cached |-> "absent", details |-> details, headers |-> headers]

\* res.status(200).json({error: false, data, cached})
DataResponse(headers, data, cached) ==
  [status |-> 200, ended |-> FALSE, error |-> FALSE, message |-> <<>>,
   data |-> Some(data), cached |-> cached, details |-> Null, headers |-> headers]

-----------------------------------------------------------------------------
(* Request handler of script.js, lines 1081-1202 *)

\* SecurityMiddleware.sanitizeCNPJ, lines 766-771
SanitizeCNPJ(cnpj) == Substring0(StripNonDigits(cnpj), 14)

ScriptOptionsAfterRateLimit(allowed) ==
  IF allowed THEN EndResponse(ScriptHeaders)
  ELSE ErrorResponse(ScriptHeaders, 429,
         <<"Limite de requisicoes excedido. Tente novamente em 1 minuto.">>, Null)

\* lines 1095-1097: the preflight answer; it does not depend on the rate limiter
ScriptOptions(allowed) == EndResponse(ScriptHeaders)

\* The part of the handler that runs before the first await (lines 1083-1155).
\* What it does: the response, or "fetch" when it goes on to call the
\* external API; and the rate-limit map and the cache as it leaves them.
ScriptArrive(method, ip, cnpj, map, cache, t) ==
  LET rl == CheckRateLimit(map, ip, t)
      validation == ValidateServer(SanitizeCNPJ(cnpj))
      got == CacheGet(cache, validation.cleaned, t)
      Answer(resp, m, c) == [do |-> "respond", resp |-> resp, cleaned |-> <<>>, map |-> m, cache |-> c]
  IN  IF method = "OPTIONS" THEN Answer(ScriptOptions(rl.allowed), map, cache)
      ELSE IF method # "GET"
        THEN Answer(ErrorResponse(ScriptHeaders, 405, <<"Metodo nao permitido">>, Null), map, cache)
      ELSE IF ~rl.allowed
        THEN Answer(ErrorResponse(ScriptHeaders, 429,
                      <<"Limite de requisicoes excedido. Tente novamente em 1 minuto.">>, Null),
                    rl.map, cache)
      ELSE IF cnpj = <<>>
        THEN Answer(ErrorResponse(ScriptHeaders, 400, <<"CNPJ nao informado">>, Null), rl.map, cache)
      ELSE IF ~validation.isValid
        THEN Answer(ErrorResponse(ScriptHeaders, 400, <<validation.error>>, Null), rl.map, cache)
      ELSE IF got.value # Null
        THEN Answer(DataResponse(ScriptHeaders, got.value[1], "true"), rl.map, got.cache)
      ELSE [do |-> "fetch", resp |-> EndResponse({}), cleaned |-> validation.cleaned,
            map |-> rl.map, cache |-> got.cache]

\* the catch block, lines 1175-1201
ScriptCatch(message, env) ==
  LET details == IF env = "development" THEN Some(message) ELSE Null
  IN  IF Includes(message, "Timeout")
        THEN ErrorResponse(ScriptHeaders, 408, <<"Timeout na consulta externa">>, details)
      ELSE IF Includes(message, "404") \/ Includes(message, "nao encontrado")
        THEN ErrorResponse(ScriptHeaders, 404, <<"Empresa nao encontrada">>, details)
      ELSE IF Includes(message, "429")
        THEN ErrorResponse(ScriptHeaders, 429, <<"API externa com limite excedido">>, details)
      ELSE IF Includes(message, "Failed to fetch") \/ Includes(message, "Network")
        THEN ErrorResponse(ScriptHeaders, 503, <<"Servico temporariamente indisponivel">>, details)
      ELSE ErrorResponse(ScriptHeaders, 500, <<"Erro interno do servidor">>, details)

ScriptAfterFetchUnchecked(cleaned, apiData, cache, t, env) ==
  [resp |-> DataResponse(ScriptHeaders, MapToFrontendStructure(apiData), "false"),
   cache |-> CacheSet(cache, cleaned, MapToFrontendStructure(apiData), t)]

\* lines 1157-1173, once fetchCNPJData has returned apiData
ScriptAfterFetch(cleaned, apiData, cache, t, env) ==
  LET mappedData == MapToFrontendStructure(apiData)
  IN  IF mappedData.taxId = <<>>
      THEN [resp |-> ScriptCatch(<<"Dados invalidos retornados pela API">>, env), cache |-> cache]
      ELSE [resp |-> DataResponse(ScriptHeaders, mappedData, "false"),
            cache |-> CacheSet(cache, cleaned, mappedData, t)]

-----------------------------------------------------------------------------
(* Request handler of api/cnpj.js, lines 1-93 *)

\* lines 3-50, up to the fetch
ApiArrive(method, cnpj) ==
  LET cnpjLimpo == StripNonDigits(cnpj)
      Answer(resp) == [do |-> "respond", resp |-> resp, cleaned |-> <<>>]
  IN  IF method = "OPTIONS" THEN Answer(EndResponse(ApiHeaders))
      ELSE IF method # "GET"
        THEN Answer(ErrorResponse(ApiHeaders, 405, <<"Metodo nao permitido">>, Null))
      ELSE IF cnpj = <<>>
        THEN Answer(ErrorResponse(ApiHeaders, 400, <<"CNPJ nao informado">>, Null))
      ELSE IF Len(cnpjLimpo) # 14
        THEN Answer(ErrorResponse(ApiHeaders, 400, <<"CNPJ deve conter 14 digitos">>, Null))
      ELSE [do |-> "fetch", resp |-> EndResponse({}), cleaned |-> cnpjLimpo]

\* lines 54-74: the answer to a non-OK upstream status
ApiUpstreamError(status) ==
  IF status = 404 THEN ErrorResponse(ApiHeaders, 404, <<"Empresa nao encontrada">>, Null)
  ELSE IF status = 429
    THEN ErrorResponse(ApiHeaders, 429,
           <<"Limite de requisicoes excedido. Tente novamente mais tarde.">>, Null)
  ELSE ErrorResponse(ApiHeaders, status, <<"Erro na API: ", StatusText(status)>>, Null)

\* lines 86-92
ApiCatch(message) ==
  ErrorResponse(ApiHeaders, 500, <<"Erro interno do servidor: ">> \o message, Null)

\* lines 76-85
ApiAfterFetch(apiData) ==
  [status |-> 200, ended |-> FALSE, error |-> FALSE, message |-> <<>>,
   data |-> Some(MapDataToFrontendStructure(apiData)), cached |-> "absent",
   details |-> Null, headers |-> ApiHeaders]

-----------------------------------------------------------------------------
(* The texts the validators are tried on *)

CNPJ_OK == Str(<<1, 1, 2, 2, 2, 3, 3, 3, 0, 0, 0, 1, 8, 1>>)
CNPJ_BAD_DIGIT == Str(<<1, 1, 2, 2, 2, 3, 3, 3, 0, 0, 0, 1, 8, 2>>)
CNPJ_REPEATED == Str(<<1, 1, 1, 1, 1, 1, 1, 1, 1, 1, 1, 1, 1, 1>>)
CNPJ_SHORT == Str(<<1, 1, 2, 2, 2, 3, 3, 3, 0, 0, 0, 1, 8>>)
CNPJ_LONG == Str(<<1, 1, 2, 2, 2, 3, 3, 3, 0, 0, 0, 1, 8, 1, 0>>)
\* 11.222.333/0001-81
CNPJ_FORMATTED ==
  Str(<<1, 1>>) \o <<".">> \o Str(<<2, 2, 2>>) \o <<".">> \o Str(<<3, 3, 3>>)
    \o <<"/">> \o Str(<<0, 0, 0, 1>>) \o <<"-">> \o Str(<<8, 1>>)
\* valid numbers whose sums leave the remainders 0 and 1 (check digit 0)
CNPJ_REM0 == Str(<<3, 3, 0, 0, 0, 1, 6, 7, 0, 0, 0, 1, 0, 1>>)
CNPJ_REM1 == Str(<<0, 0, 0, 0, 0, 0, 0, 0, 2, 0, 0, 1, 0, 7>>)
CNPJ_REM01 == Str(<<0, 0, 0, 0, 0, 0, 0, 0, 5, 0, 0, 1, 6, 0>>)
CNPJ_REM00 == Str(<<0, 0, 0, 0, 0, 0, 0, 0, 8, 0, 0, 1, 2, 0>>)

CNPJ_BB == Str(<<0, 0, 0, 0, 0, 0, 0, 0, 0, 0, 0, 1, 9, 1>>)
CNPJ_BRADESCO == Str(<<6, 0, 7, 4, 6, 9, 4, 8, 0, 0, 0, 1, 1, 2>>)

Seeds == {CNPJ_OK, CNPJ_BAD_DIGIT, CNPJ_REPEATED, CNPJ_SHORT, CNPJ_LONG,
          CNPJ_FORMATTED, CNPJ_REM0, CNPJ_REM1, CNPJ_REM01, CNPJ_REM00,
          CNPJ_BB, CNPJ_BRADESCO, <<>>}

TypedChars == DigitChars \cup {"."}

\* the last EditWindow characters of the text may be retyped
EditWindow == 2

-----------------------------------------------------------------------------
(* Bounds of the specifications, and the values of state not in use *)

RateClients == {IP_A}

\* the clock of the rate limiter specification: calls come in bursts of up
\* to MaxBurst consecutive milliseconds, in the first MaxWindows + 1 minutes
MaxBurst == 10
MaxWindows == 1

NoCall == [ip |-> <<>>, at |-> 0, allowed |-> FALSE, count |-> 0]
NoWindow == [start |-> 0, grants |-> 0, last |-> 0]
NoVerdict == [of |-> <<"?">>, server |-> Invalid(""), client |-> FALSE, handler |-> FALSE]
NoCacheOp == [op |-> "none", key |-> <<>>, at |-> 0, result |-> Null]

\* the requests the handlers are tried on
Methods == {"GET", "OPTIONS", "POST"}
Params == {<<>>, CNPJ_FORMATTED, CNPJ_BAD_DIGIT, CNPJ_SHORT}

\* what the external API may send for a CNPJ: a record (in two revisions), a
\* record with neither estabelecimento.cnpj nor cnpj_raiz
UpstreamDocs(c) ==
  {[cnpj |-> c, raiz |-> Substring0(c, 8), razao |-> "ACME LTDA",
    socios |-> [has |-> TRUE, names |-> <<"ANA", "">>]],
   [cnpj |-> c, raiz |-> Substring0(c, 8), razao |-> "ACME SA",
    socios |-> [has |-> FALSE, names |-> <<>>]],
   [cnpj |-> <<>>, raiz |-> <<>>, razao |-> "", socios |-> [has |-> FALSE, names |-> <<>>]]}
UpstreamStatuses == {200, 404, 429, 500}
ErrorBodies == {<<"Internal Server Error">>, <<"upstream ", "Timeout">>}
NetworkMessages == {<<"fetch failed">>, <<"Failed to fetch">>}
ParseMessage == <<"Unexpected token < in JSON at position 0">>

\* handler invocations that may be suspended at the same time
MaxInFlight == 2

\* the clock of the server specification starts at ServerStart and stops
\* after MaxTimeouts steps of TIMEOUT_MS and MaxCachePeriods steps to the next
\* expiry of the cache
ServerStart == TIMEOUT_MS
MaxTimeouts == 1

\* the records the script.js handler may store in the cache
Storable ==
  {m \in {MapToFrontendStructure(d) : d \in UpstreamDocs(CNPJ_OK)} : m.taxId # <<>>}

NoFail == [kind |-> "none", status |-> 0, body |-> <<>>]
NoResp ==
  [handler |-> "none", method |-> "", param |-> <<>>, overLimit |-> FALSE, sync |-> FALSE,
   called |-> FALSE, fail |-> NoFail, raw |-> Null, timer |-> "none",
   resp |-> ErrorResponse({}, 0, <<>>, Null)]

ServerIdle ==
  /\ nodeEnv = "production"
  /\ inflight = EmptyBag
  /\ lastResp = NoResp
  /\ lastStore = <<>>

\* the page as loaded: empty input, nothing shown, button enabled
PageLoaded ==
  [value |-> <<>>, error |-> Null, result |-> Null, loading |-> FALSE, disabled |-> FALSE]
NoSearch == [id |-> 0, failure |-> "none", requests |-> 0, shown |-> Null]

UiIdle ==
  /\ page = PageLoaded
  /\ searches = {}
  /\ issued = 0
  /\ lastDone = NoSearch

RateIdle ==
  /\ rateLimitMap = EmptyMap
  /\ rlLast = NoCall
  /\ rlWindow = [ip \in RateClients |-> NoWindow]

CacheKeys == {CNPJ_OK, CNPJ_REM0}
CacheValues == {"ACME LTDA", "ACME SA"}

\* the clock of the cache specification: up to MaxCacheBurst single
\* milliseconds after each of up to MaxCachePeriods steps of CACHE_TTL - 1
MaxCacheBurst == 2
MaxCachePeriods == 1

NoSet == [set |-> FALSE, value |-> "", at |-> 0, expired |-> FALSE]

CacheIdle ==
  /\ requestCache = EmptyMap
  /\ cacheLast = NoCacheOp
  /\ cacheSets = [k \in CacheKeys |-> NoSet]

ValidatorIdle == input = <<>> /\ verdict = NoVerdict

-----------------------------------------------------------------------------
(* Rate limiter specification: one client calls checkRateLimit as time passes *)

\* the client's 60-second window: it opens with a granted call and holds the
\* grants of the next 60 s (counted up to one past the limit)
Granted(w, t) ==
  IF w.grants = 0 \/ t - w.start >= WINDOW_MS
  THEN [start |-> t, grants |-> 1, last |-> t]
  ELSE [start |-> w.start,
        grants |-> IF w.grants > MAX_REQUESTS_PER_MINUTE THEN w.grants ELSE w.grants + 1,
        last |-> t]

RateInit ==
  /\ now = 0
  /\ RateIdle
  /\ CacheIdle
  /\ ServerIdle
  /\ UiIdle
  /\ ValidatorIdle

RateCall(ip) ==
  LET r == CheckRateLimit(rateLimitMap, ip, now)
  IN  /\ rateLimitMap' = r.map
      /\ rlLast' = [ip |-> ip, at |-> now, allowed |-> r.allowed, count |-> r.count]
      /\ rlWindow' = IF r.allowed THEN [rlWindow EXCEPT ![ip] = Granted(@, now)]
                     ELSE rlWindow
      /\ UNCHANGED <<now, cacheVars, validatorVars, serverVars, uiVars>>

RateTick(d) ==
  /\ d = 1 => now % WINDOW_MS < MaxBurst
  /\ d = WINDOW_MS => now + d <= MaxWindows * WINDOW_MS + MaxBurst
  /\ now' = now + d
  /\ UNCHANGED <<rateVars, cacheVars, validatorVars, serverVars, uiVars>>

RateNext ==
  \/ \E ip \in RateClients : RateCall(ip)
  \/ \E d \in {1, WINDOW_MS} : RateTick(d)

SpecRate == RateInit /\ [][RateNext]_vars

\* C1: inside one 60-second window of a client at most MAX_REQUESTS_PER_MINUTE
\* calls return true (calls at the same millisecond included), and a call is
\* rejected only while a granted call of that client is less than 60 s old.
C1_AtMostMaxPerWindow ==
  /\ \A ip \in RateClients : rlWindow[ip].grants <= MAX_REQUESTS_PER_MINUTE
  /\ (rlLast # NoCall /\ ~rlLast.allowed) =>
       /\ rlWindow[rlLast.ip].grants > 0
       /\ rlLast.at - rlWindow[rlLast.ip].last < WINDOW_MS

-----------------------------------------------------------------------------
(* Cache specification: get, set, clear and the sweep as time passes *)

CacheInit ==
  /\ now = 0
  /\ CacheIdle
  /\ RateIdle
  /\ ValidatorIdle
  /\ ServerIdle
  /\ UiIdle

DoCacheGet(k) ==
  LET r == CacheGet(requestCache, k, now)
  IN  /\ requestCache' = r.cache
      /\ cacheLast' = [op |-> "get", key |-> k, at |-> now, result |-> r.value]
      /\ cacheSets' = IF cacheSets[k].set /\ now - cacheSets[k].at >= CACHE_TTL
                      THEN [cacheSets EXCEPT ![k].expired = TRUE]
                      ELSE cacheSets
      /\ UNCHANGED <<now, rateVars, validatorVars, serverVars, uiVars>>

DoCacheSet(k, v) ==
  /\ requestCache' = CacheSet(requestCache, k, v, now)
  /\ cacheLast' = [op |-> "set", key |-> k, at |-> now, result |-> Null]
  /\ cacheSets' = [cacheSets EXCEPT ![k] = [set |-> TRUE, value |-> v, at |-> now, expired |-> FALSE]]
  /\ UNCHANGED <<now, rateVars, validatorVars, serverVars, uiVars>>

DoCacheClear ==
  /\ requestCache' = CacheClear(requestCache)
  /\ cacheLast' = [op |-> "clear", key |-> <<>>, at |-> now, result |-> Null]
  /\ cacheSets' = [k \in CacheKeys |-> NoSet]
  /\ UNCHANGED <<now, rateVars, validatorVars, serverVars, uiVars>>

Sweep ==
  /\ requestCache' = SweepCache(requestCache, now)
  /\ rateLimitMap' = SweepRateLimit(rateLimitMap, now)
  /\ UNCHANGED <<now, cacheLast, cacheSets, rlLast, rlWindow, validatorVars, serverVars, uiVars>>

CacheTick(d) ==
  /\ d = 1 => now % (CACHE_TTL - 1) < MaxCacheBurst
  /\ d = CACHE_TTL - 1 => now + d <= MaxCachePeriods * (CACHE_TTL - 1) + MaxCacheBurst
  /\ now' = now + d
  /\ UNCHANGED <<rateVars, cacheVars, validatorVars, serverVars, uiVars>>

CacheNext ==
  \/ \E k \in CacheKeys : DoCacheGet(k)
  \/ \E k \in CacheKeys, v \in CacheValues : DoCacheSet(k, v)
  \/ DoCacheClear
  \/ Sweep
  \/ \E d \in {1, CACHE_TTL - 1} : CacheTick(d)

SpecCache == CacheInit /\ [][CacheNext]_vars

\* C4: get(key) returns the value of the last set(key, value) while
\* now - storedAt < CACHE_TTL and no later set or clear happened; once
\* now - storedAt >= CACHE_TTL it returns null and the entry is removed, and
\* stays absent until the next set of the key.
C4_GetWithinTtl ==
  /\ cacheLast.op = "get" =>
       LET g == cacheSets[cacheLast.key]
       IN  cacheLast.result =
             IF g.set /\ cacheLast.at - g.at < CACHE_TTL THEN Some(g.value) ELSE Null
  /\ \A k \in CacheKeys : cacheSets[k].expired => k \notin DOMAIN requestCache

\* a get at exactly CACHE_TTL after the set has returned null
C4_Witness ==
  /\ cacheLast.op = "get"
  /\ cacheSets[cacheLast.key].set
  /\ cacheLast.at - cacheSets[cacheLast.key].at = CACHE_TTL
  /\ cacheLast.result = Null
  /\ cacheLast.key \notin DOMAIN requestCache

-----------------------------------------------------------------------------
(* Validator specification: a text is chosen, retyped, and validated *)

ValidatorInit ==
  /\ input \in Seeds
  /\ verdict = NoVerdict
  /\ now = 0
  /\ RateIdle
  /\ CacheIdle
  /\ ServerIdle
  /\ UiIdle

Retype(i, c) ==
  /\ i \in 1..Len(input)
  /\ i > Len(input) - EditWindow
  /\ input[i] # c
  /\ input' = [input EXCEPT ![i] = c]
  /\ verdict' = NoVerdict
  /\ UNCHANGED <<now, rateVars, cacheVars, serverVars, uiVars>>

\* lines 1122-1132 of the handler: the parameter is present, and valid once
\* sanitized
HandlerAccepts(cnpj) == cnpj # <<>> /\ ValidateServer(SanitizeCNPJ(cnpj)).isValid

Validate ==
  /\ verdict' = [of |-> input, server |-> ValidateServer(input), client |-> validateCNPJ(input),
                  handler |-> HandlerAccepts(input)]
  /\ UNCHANGED <<input, now, rateVars, cacheVars, serverVars, uiVars>>

ValidatorNext ==
  \/ \E i \in 1..Len(input), c \in TypedChars : Retype(i, c)
  \/ Validate

SpecValidator == ValidatorInit /\ [][ValidatorNext]_vars

-----------------------------------------------------------------------------
(* The check-digit rule as the tax authority states it, with literal weights *)

Weights12 == <<5, 4, 3, 2, 9, 8, 7, 6, 5, 4, 3, 2>>
Weights13 == <<6, 5, 4, 3, 2, 9, 8, 7, 6, 5, 4, 3, 2>>

RECURSIVE WeightedSum(_, _, _)
WeightedSum(d, w, n) == IF n = 0 THEN 0 ELSE WeightedSum(d, w, n - 1) + DigitVal(d[n]) * w[n]

CheckDigit(sum) == IF sum % 11 < 2 THEN 0 ELSE 11 - (sum % 11)

Accepted(text) ==
  LET d == StripNonDigits(text)
  IN  /\ Len(d) = 14
      /\ \E i \in 1..14 : d[i] # d[1]
      /\ DigitVal(d[13]) = CheckDigit(WeightedSum(d, Weights12, 12))
      /\ DigitVal(d[14]) = CheckDigit(WeightedSum(d, Weights13, 13))

\* C6: both validators accept a text iff, stripped of non-digits, it has 14
\* digits that are not all identical and whose 13th and 14th digits are the
\* check digits under the weights 5,4,3,2,9,8,7,6,5,4,3,2 and
\* 6,5,4,3,2,9,8,7,6,5,4,3,2; cleaned is then the stripped text;
\* 11222333000181 is accepted and 11222333000182 is rejected.
C6_ValidatorMatchesRule ==
  /\ verdict # NoVerdict =>
       /\ verdict.server.isValid = Accepted(verdict.of)
       /\ verdict.client = Accepted(verdict.of)
       /\ verdict.server.isValid => verdict.server.cleaned = StripNonDigits(verdict.of)
  /\ verdict.of = CNPJ_OK => verdict.server.isValid /\ verdict.client
  /\ verdict.of = CNPJ_BAD_DIGIT => ~verdict.server.isValid /\ ~verdict.client

\* a number whose first check digit is 0 because the sum leaves remainder 1
\* has been validated and accepted by both validators
C6_Witness ==
  /\ verdict.of = CNPJ_REM1
  /\ verdict.server.isValid
  /\ verdict.client

-----------------------------------------------------------------------------
(* Server specifications: requests arrive at a handler, the external API    *)
(* answers the calls in flight, the abort timers fire, the sweep runs.      *)
(* Spec is the handler of script.js, SpecApi the handler of api/cnpj.js:    *)
(* the two share no state                                                   *)

\* what the granted calls of IP_A in the WarmCalls milliseconds before
\* ServerStart leave in rateLimitMap: two more are granted in the window
WarmCalls == MAX_REQUESTS_PER_MINUTE - 2
WarmTimes == (ServerStart - WarmCalls)..(ServerStart - 1)
WarmMap ==
  [k \in {RateKey(IP_A, t) : t \in WarmTimes} |->
     CHOOSE t \in WarmTimes : RateKey(IP_A, t) = k]

ServerInit ==
  /\ now = ServerStart
  /\ rateLimitMap = WarmMap
  /\ rlLast = NoCall
  /\ rlWindow = [ip \in RateClients |-> NoWindow]
  /\ CacheIdle
  /\ ValidatorIdle
  /\ nodeEnv \in {"production", "development"}
  /\ inflight = EmptyBag
  /\ lastResp = NoResp
  /\ lastStore = <<>>
  /\ UiIdle

\* single-flight coalescing: a second invocation for a CNPJ waits for the call
\* already in flight
IssueFetchSingleFlight(bag, r) ==
  IF \E q \in BagToSet(bag) : q.handler = r.handler /\ q.cleaned = r.cleaned
  THEN bag (+) SetToBag({[r EXCEPT !.ownCall = FALSE]})
  ELSE bag (+) SetToBag({r})

\* the invocation calls fetch and is suspended in the await
IssueFetch(bag, r) == bag (+) SetToBag({r})

\* the response sent, with the request it answers: overLimit tells whether
\* the client was over its rate limit when the request arrived, sync whether
\* the request was answered without suspending, called whether the
\* invocation called the external API
Sent(h, m, p, over, sync, called, fail, resp) ==
  [handler |-> h, method |-> m, param |-> p, overLimit |-> over, sync |-> sync,
   called |-> called, fail |-> fail, raw |-> Null, timer |-> "none", resp |-> resp]

\* a request arrives at the script.js handler
ScriptRequest(m, p) ==
  LET a == ScriptArrive(m, IP_A, p, rateLimitMap, requestCache, now)
  IN  /\ rateLimitMap' = a.map
      /\ requestCache' = a.cache
      /\ IF a.do = "respond"
         THEN /\ lastResp' = Sent("script", m, p, ~CheckRateLimit(rateLimitMap, IP_A, now).allowed,
                                   TRUE, FALSE, NoFail, a.resp)
              /\ inflight' = inflight
         ELSE /\ BagCardinality(inflight) < MaxInFlight
              /\ inflight' = IssueFetch(inflight,
                   [handler |-> "script", cleaned |-> a.cleaned, pc |-> "awaitHeaders",
                    startedAt |-> now, timer |-> "armed", status |-> 0, ownCall |-> TRUE])
              /\ lastResp' = lastResp
      /\ UNCHANGED <<now, rlLast, rlWindow, cacheLast, cacheSets, validatorVars, nodeEnv, lastStore, uiVars>>

\* a request arrives at the api/cnpj.js handler
ApiRequest(m, p) ==
  LET a == ApiArrive(m, p)
  IN  /\ IF a.do = "respond"
         THEN /\ lastResp' = Sent("api", m, p, FALSE, TRUE, FALSE, NoFail, a.resp)
              /\ inflight' = inflight
         ELSE /\ BagCardinality(inflight) < MaxInFlight
              /\ inflight' = IssueFetch(inflight,
                   [handler |-> "api", cleaned |-> a.cleaned, pc |-> "awaitHeaders",
                    startedAt |-> 0, timer |-> "none", status |-> 0, ownCall |-> TRUE])
              /\ lastResp' = lastResp
      /\ UNCHANGED <<now, rateVars, cacheVars, validatorVars, nodeEnv, lastStore, uiVars>>

\* the records sent with cached: false, the most recent last
Stored(store, data, t) ==
  SelectSeq(store, LAMBDA e : e.data # data) \o <<[data |-> data, at |-> t]>>

Without(bag, r) == bag (-) SetToBag({r})

ClearTimeoutForgotten(timer) == timer

\* clearTimeout(timeoutId), lines 879 and 891: a pending timer is cancelled,
\* one that has fired or was cancelled stays as it is
ClearTimeout(timer) == IF timer = "armed" THEN "cleared" ELSE timer

\* the invocation r ends with the response resp; its fetchCNPJData has left
\* the abort timer in the state `timer`
Finish(r, timer, fail, resp) ==
  /\ inflight' = Without(inflight, r)
  /\ lastResp' = [Sent(r.handler, "GET", r.cleaned, FALSE, FALSE, r.ownCall, fail, resp)
                    EXCEPT !.timer = timer]

\* the invocation r ends with the response resp, made from the upstream
\* record apiData
FinishMapped(r, apiData, fail, resp) ==
  /\ inflight' = Without(inflight, r)
  /\ lastResp' = [Sent(r.handler, "GET", r.cleaned, FALSE, FALSE, r.ownCall, fail, resp)
                    EXCEPT !.raw = Some(apiData), !.timer = r.timer]

\* the status line and headers of the upstream response arrive: fetch resolves.
\* script.js clears the timer (line 879) and reads the body; api/cnpj.js
\* answers 404 and 429 at once (lines 55-67) and reads the body otherwise
UpstreamHeaders(r, status) ==
  /\ r \in BagToSet(inflight)
  /\ r.pc = "awaitHeaders"
  /\ IF r.handler = "api" /\ status \in {404, 429}
     THEN Finish(r, r.timer, [kind |-> "http", status |-> status, body |-> <<>>],
                 ApiUpstreamError(status))
     ELSE /\ inflight' = Without(inflight, r) (+)
                SetToBag({[r EXCEPT !.pc = "awaitBody", !.status = status,
                                    !.timer = IF r.handler = "script" THEN ClearTimeout(r.timer)
                                              ELSE r.timer]})
          /\ lastResp' = lastResp
  /\ UNCHANGED <<now, rateVars, cacheVars, validatorVars, nodeEnv, lastStore, uiVars>>

\* the body of a non-OK upstream response arrives (response.text())
UpstreamErrorBody(r, body) ==
  /\ r \in BagToSet(inflight)
  /\ r.pc = "awaitBody"
  /\ ~IsOk(r.status)
  /\ LET fail == [kind |-> "http", status |-> r.status, body |-> body]
     IN  IF r.handler = "script"
         THEN Finish(r, ClearTimeout(r.timer), fail,
                ScriptCatch(FetchThrown("Error", UpstreamErrorMessage(r.status, body)), nodeEnv))
         ELSE Finish(r, r.timer, fail, ApiUpstreamError(r.status))
  /\ UNCHANGED <<now, rateVars, cacheVars, validatorVars, nodeEnv, lastStore, uiVars>>

\* the body of an OK upstream response arrives and parses (response.json())
UpstreamDocument(r, apiData) ==
  /\ r \in BagToSet(inflight)
  /\ r.pc = "awaitBody"
  /\ IsOk(r.status)
  /\ IF r.handler = "script"
     THEN LET done == ScriptAfterFetch(r.cleaned, apiData, requestCache, now, nodeEnv)
          IN  /\ FinishMapped(r, apiData,
                        IF done.resp.error
                        THEN [kind |-> "nodata", status |-> r.status, body |-> <<>>]
                        ELSE NoFail,
                        done.resp)
              /\ requestCache' = done.cache
              /\ lastStore' = IF done.resp.error THEN lastStore
                              ELSE Stored(lastStore, done.resp.data[1], now)
     ELSE /\ FinishMapped(r, apiData, NoFail, ApiAfterFetch(apiData))
          /\ UNCHANGED <<requestCache, lastStore>>
  /\ UNCHANGED <<now, rateVars, cacheLast, cacheSets, validatorVars, nodeEnv, uiVars>>

\* the body of an OK upstream response arrives and is not JSON
UpstreamGarbage(r) ==
  /\ r \in BagToSet(inflight)
  /\ r.pc = "awaitBody"
  /\ IsOk(r.status)
  /\ LET fail == [kind |-> "parse", status |-> r.status, body |-> <<>>]
     IN  IF r.handler = "script"
         THEN Finish(r, ClearTimeout(r.timer), fail,
                ScriptCatch(FetchThrown("SyntaxError", ParseMessage), nodeEnv))
         ELSE Finish(r, r.timer, fail, ApiCatch(ParseMessage))
  /\ UNCHANGED <<now, rateVars, cacheVars, validatorVars, nodeEnv, lastStore, uiVars>>

\* the connection fails: fetch, or the body read, rejects with a TypeError
NetworkError(r, message) ==
  /\ r \in BagToSet(inflight)
  /\ LET fail == [kind |-> "network", status |-> 0, body |-> message]
     IN  IF r.handler = "script"
         THEN Finish(r, ClearTimeout(r.timer), fail,
                ScriptCatch(FetchThrown("TypeError", message), nodeEnv))
         ELSE Finish(r, r.timer, fail, ApiCatch(message))
  /\ UNCHANGED <<now, rateVars, cacheVars, validatorVars, nodeEnv, lastStore, uiVars>>

\* the timer of line 863 fires TIMEOUT_MS after the call: controller.abort()
\* rejects the pending fetch with an AbortError
TimerFires(r) ==
  /\ r \in BagToSet(inflight)
  /\ r.timer = "armed"
  /\ now >= r.startedAt + TIMEOUT_MS
  /\ Finish(r, ClearTimeout("fired"), [kind |-> "abort", status |-> 0, body |-> <<>>],
            ScriptCatch(FetchThrown("AbortError", <<"This operation was aborted">>), nodeEnv))
  /\ UNCHANGED <<now, rateVars, cacheVars, validatorVars, nodeEnv, lastStore, uiVars>>

\* time passes, up to the next armed timer's deadline
ServerTick(d) ==
  /\ d = TIMEOUT_MS =>
       (now - ServerStart) % (CACHE_TTL - TIMEOUT_MS) < MaxTimeouts * TIMEOUT_MS
  /\ d # TIMEOUT_MS =>
       now + d <= ServerStart + MaxCachePeriods * (CACHE_TTL - TIMEOUT_MS)
                              + MaxTimeouts * TIMEOUT_MS
  /\ \A r \in BagToSet(inflight) : r.timer = "armed" => now + d <= r.startedAt + TIMEOUT_MS
  /\ now' = now + d
  /\ UNCHANGED <<rateVars, cacheVars, validatorVars, serverVars, uiVars>>

Next ==
  \/ \E m \in Methods, p \in Params : ScriptRequest(m, p)
  \/ \E r \in BagToSet(inflight), status \in UpstreamStatuses : UpstreamHeaders(r, status)
  \/ \E r \in BagToSet(inflight), body \in ErrorBodies : UpstreamErrorBody(r, body)
  \/ \E r \in BagToSet(inflight) : \E apiData \in UpstreamDocs(r.cleaned) : UpstreamDocument(r, apiData)
  \/ \E r \in BagToSet(inflight) : UpstreamGarbage(r)
  \/ \E r \in BagToSet(inflight), message \in NetworkMessages : NetworkError(r, message)
  \/ \E r \in BagToSet(inflight) : TimerFires(r)
  \/ Sweep
  \/ \E d \in {TIMEOUT_MS, CACHE_TTL - TIMEOUT_MS} : ServerTick(d)

Spec == ServerInit /\ [][Next]_vars

ApiInit ==
  /\ now = ServerStart
  /\ RateIdle
  /\ CacheIdle
  /\ ValidatorIdle
  /\ ServerIdle
  /\ UiIdle

ApiNext ==
  \/ \E m \in Methods, p \in Params : ApiRequest(m, p)
  \/ \E r \in BagToSet(inflight), status \in UpstreamStatuses : UpstreamHeaders(r, status)
  \/ \E r \in BagToSet(inflight), body \in ErrorBodies : UpstreamErrorBody(r, body)
  \/ \E r \in BagToSet(inflight) : \E apiData \in UpstreamDocs(r.cleaned) : UpstreamDocument(r, apiData)
  \/ \E r \in BagToSet(inflight) : UpstreamGarbage(r)
  \/ \E r \in BagToSet(inflight), message \in NetworkMessages : NetworkError(r, message)

SpecApi == ApiInit /\ [][ApiNext]_vars

-----------------------------------------------------------------------------
(* UI controller of script.js, lines 1-302 and 651-691: the user types and  *)
(* submits searches, the backend answers the requests in flight             *)

\* what the user types or pastes into the input
UiTexts == {<<>>, CNPJ_SHORT, CNPJ_BAD_DIGIT, CNPJ_FORMATTED, CNPJ_REM0}

\* searchCNPJ invocations begun in a run
MaxSearches == 2

\* bodies the backend answers with: JSON of a record, JSON of an error, JSON
\* without a message, an HTML page, plain text, nothing
JsonData(taxId) ==
  [kind |-> "json", error |-> FALSE, message |-> <<>>,
   data |-> Some([taxId |-> taxId, name |-> "ACME LTDA"])]
JsonError(message) == [kind |-> "json", error |-> TRUE, message |-> message, data |-> Null]
RawBody(kind, text) == [kind |-> kind, error |-> FALSE, message |-> text, data |-> Null]

UiBodies(cnpj, status) ==
  IF IsOk(status)
  THEN {JsonData(cnpj), JsonData(<<>>), JsonError(<<"Dados invalidos">>),
        RawBody("html", <<"<!DOCTYPE html>">>)}
  ELSE {JsonError(IF status = 408 THEN <<"Timeout na consulta externa">>
                  ELSE <<"Erro interno do servidor">>),
        JsonError(<<>>), RawBody("html", <<"<html>">>),
        RawBody("text", <<"Bad Gateway">>), RawBody("text", <<>>)}
UiStatuses == {200, 408, 500}

\* showError, lines 668-671; clearError, 673-676; hideResult, 663-666
ShowError(p, message) == [p EXCEPT !.error = Some(message)]
ClearError(p) == [p EXCEPT !.error = Null]
HideResult(p) == [p EXCEPT !.result = Null]

\* displayData, lines 231-302
DisplayData(p, data) ==
  IF data = Null \/ data[1].taxId = <<>>
  THEN ShowError(p, <<"Dados da empresa nao encontrados ou invalidos">>)
  ELSE [p EXCEPT !.result = data]

\* the finally block of searchCNPJ, lines 224-227
Finally(p) == [p EXCEPT !.loading = FALSE, !.disabled = FALSE]

\* the catch block of searchCNPJ, lines 221-223
Caught(p, message) == ShowError(p, <<"Erro: ">> \o message)

\* lines 183-203: the message thrown for a response that is not OK
NotOkMessage(status, body) ==
  IF body.kind = "json"
  THEN OrElse(body.message, <<"Erro ", StatusText(status)>>)
  ELSE IF body.kind = "html" THEN <<"Servidor retornou pagina HTML inesperada">>
  ELSE OrElse(body.message, <<"Erro ", StatusText(status)>>)

\* lines 183-220: what searchCNPJ does with the response text
AfterText(p, status, body) ==
  IF ~IsOk(status) THEN Caught(p, NotOkMessage(status, body))
  ELSE IF body.kind # "json" THEN Caught(p, <<"Resposta da API invalida (nao e JSON)">>)
  ELSE IF body.error THEN Caught(p, body.message)
  ELSE DisplayData(p, body.data)

\* the input listener of lines 36-38 keeps the digits of what is typed
TypeText(text) ==
  /\ page' = [page EXCEPT !.value = StripNonDigits(text)]
  /\ UNCHANGED <<searches, issued, lastDone>>
  /\ UNCHANGED <<now, rateVars, cacheVars, validatorVars, serverVars>>

\* handleSearch, lines 139-164, run by a click on the enabled button or by
\* the Enter key; searchCNPJ up to its first await, lines 167-174
HandleSearch(via) ==
  LET cnpjValue == StripNonDigits(page.value)
      cleared == HideResult(ClearError(page))
      Rejected(message) ==
        /\ page' = ShowError(cleared, message)
        /\ lastDone' = [id |-> 0, failure |-> "validation", requests |-> 0,
                        shown |-> Some(message)]
        /\ UNCHANGED <<searches, issued>>
  IN  /\ via = "click" => ~page.disabled
      /\ IF cnpjValue = <<>> THEN Rejected(<<"Por favor, digite um CNPJ">>)
         ELSE IF Len(cnpjValue) # 14 THEN Rejected(<<"CNPJ deve conter 14 digitos">>)
         ELSE IF ~validateCNPJ(cnpjValue) THEN Rejected(<<"CNPJ invalido">>)
         ELSE /\ issued < MaxSearches
              /\ page' = [cleared EXCEPT !.loading = TRUE, !.disabled = TRUE]
              /\ issued' = issued + 1
              /\ searches' = searches \cup
                   {[id |-> issued + 1, cnpj |-> cnpjValue, pc |-> "awaitFetch",
                     status |-> 0, requests |-> 1]}
              /\ lastDone' = lastDone
      /\ UNCHANGED <<now, rateVars, cacheVars, validatorVars, serverVars>>

\* the search s ends: the page after the catch or the display, then finally
Ended(s, failure, shown) ==
  /\ page' = Finally(shown)
  /\ searches' = searches \ {s}
  /\ lastDone' = [id |-> s.id, failure |-> failure, requests |-> s.requests,
                  shown |-> shown.error]
  /\ UNCHANGED <<issued, now, rateVars, cacheVars, validatorVars, serverVars>>

\* fetch, or the read of the body, rejects: the request did not get through
FetchRejects(s, message) ==
  /\ s \in searches
  /\ Ended(s, "fetch", Caught(page, message))

\* fetch resolves with the status line of the response
ResponseArrives(s, status) ==
  /\ s \in searches
  /\ s.pc = "awaitFetch"
  /\ searches' = (searches \ {s}) \cup {[s EXCEPT !.pc = "awaitText", !.status = status]}
  /\ UNCHANGED <<page, issued, lastDone, now, rateVars, cacheVars, validatorVars, serverVars>>

\* response.text() resolves
TextArrives(s, body) ==
  /\ s \in searches
  /\ s.pc = "awaitText"
  /\ Ended(s, IF s.status = 408 THEN "timeout"
              ELSE IF IsOk(s.status) /\ body.kind = "json" /\ ~body.error THEN "none"
              ELSE "other",
           AfterText(page, s.status, body))

UiInit ==
  /\ now = 0
  /\ RateIdle
  /\ CacheIdle
  /\ ValidatorIdle
  /\ ServerIdle
  /\ page = PageLoaded
  /\ searches = {}
  /\ issued = 0
  /\ lastDone = NoSearch

UiNext ==
  \/ \E text \in UiTexts : TypeText(text)
  \/ \E via \in {"click", "enter"} : HandleSearch(via)
  \/ \E s \in searches, message \in NetworkMessages : FetchRejects(s, message)
  \/ \E s \in searches, status \in UiStatuses : ResponseArrives(s, status)
  \/ \E s \in searches : \E body \in UiBodies(s.cnpj, s.status) : TextArrives(s, body)

SpecUI == UiInit /\ [][UiNext]_vars

-----------------------------------------------------------------------------
(* Claims about the handlers                                                *)

InFlight == BagToSet(inflight)
ScriptAnswered == lastResp.handler = "script"
Hit == ScriptAnswered /\ lastResp.sync /\ lastResp.resp.cached = "true"
Fresh == ScriptAnswered /\ ~lastResp.sync /\ lastResp.fail = NoFail

\* C2: in every handler a request whose CNPJ is not a valid 14-digit CNPJ is
\* answered without a call to the external API: every invocation suspended
\* in a fetch carries a CNPJ the validation rule accepts
C2_FetchOnlyForValidCnpj == \A r \in InFlight : Accepted(r.cleaned)

\* C3 (as amended): a miss answered by an upstream success carrying a taxId
\* returns 200 with cached: false; while such a response is less than the TTL
\* old no GET for the CNPJ calls the external API, and every cached: true
\* response is 200, is given without an external call and carries the data of
\* the most recent cached: false response
C3_FreshThenCached ==
  /\ Fresh => /\ lastResp.resp.status = 200
              /\ lastResp.resp.cached = "false"
              /\ lastResp.called
              /\ lastStore # <<>>
              /\ lastResp.resp.data = Some(lastStore[Len(lastStore)].data)
  /\ Hit => /\ lastResp.resp.status = 200
            /\ ~lastResp.resp.error
            /\ ~lastResp.called
            /\ lastStore # <<>>
            /\ lastResp.resp.data = Some(lastStore[Len(lastStore)].data)

\* a step that suspends one more invocation in a fetch is taken only when no
\* cached: false response is less than the TTL old
C3_NoCallWhileFresh ==
  BagCardinality(inflight') > BagCardinality(inflight) =>
    \A i \in DOMAIN lastStore : now - lastStore[i].at >= CACHE_TTL

\* C3 (as amended), both parts: what the responses carry in every state, and
\* that no step issues a fetch while a cached: false response is fresh
C3_HitRepeatsLastFresh == []C3_FreshThenCached /\ [][C3_NoCallWhileFresh]_vars

C3_Witness ==
  /\ Hit
  /\ lastResp.resp.data = Some(lastStore[Len(lastStore)].data)
  /\ now > lastStore[Len(lastStore)].at

\* C3 (as stated): every cached: true response carries the data of each
\* cached: false response that is less than the TTL old
C3_HitRepeatsFirst ==
  Hit => \A i \in DOMAIN lastStore :
           now - lastStore[i].at < CACHE_TTL => lastResp.resp.data = Some(lastStore[i].data)

\* C5: when the external fetch fails with an HTTP status, the status of the
\* handler's response depends on that status alone (404 gives 404, 429 gives
\* 429, any other gives 500), whatever the text of the upstream body
C5_StatusByFailureClass ==
  (ScriptAnswered /\ lastResp.fail.kind = "http") =>
    lastResp.resp.status = CASE lastResp.fail.status = 404 -> 404
                             [] lastResp.fail.status = 429 -> 429
                             [] OTHER -> 500

\* C7: in the UI controller the error of a search that failed transiently
\* (timeout, fetch failure) is shown only after the request was re-issued
\* twice; a search rejected by the local validation shows its error and
\* issues no request
C7_ErrorAfterRetries ==
  /\ (lastDone.failure \in {"timeout", "fetch"} /\ lastDone.shown # Null) =>
       lastDone.requests = 1 + 2
  /\ lastDone.failure = "validation" => lastDone.requests = 0 /\ lastDone.shown # Null

\* C8: invocations for the same uncached CNPJ that are suspended together
\* each have their own call to the external API; an invocation that missed
\* the cache never answers cached: true, and answers cached: false when its
\* call succeeds
C8_NoCoalescing ==
  /\ \A r \in InFlight : r.ownCall
  /\ (ScriptAnswered /\ ~lastResp.sync) =>
       /\ lastResp.called
       /\ lastResp.resp.cached # "true"
       /\ lastResp.fail = NoFail => lastResp.resp.cached = "false"

C8_Witness ==
  /\ Fresh
  /\ \E r \in InFlight : r.cleaned = lastResp.param /\ r.ownCall /\ r.pc = "awaitHeaders"
  /\ lastResp.param \in DOMAIN requestCache

\* C9: no call of fetchCNPJData is pending more than TIMEOUT_MS after it began
C9_NoCallPendingPastTimeout ==
  \A r \in InFlight : r.handler = "script" => now <= r.startedAt + TIMEOUT_MS

\* C10: a request with method OPTIONS is answered 200 with an empty body and
\* without a call to the external API, by the script.js handler in every
\* state of the rate limiter and the cache and by the api/cnpj.js handler,
\* whatever the query is
C10_OptionsAlways200 ==
  /\ lastResp.method = "OPTIONS" =>
       /\ lastResp.resp.status = 200 /\ lastResp.resp.ended
       /\ lastResp.resp.message = <<>> /\ lastResp.resp.data = Null
       /\ lastResp.sync /\ ~lastResp.called
  /\ \A p \in Params :
       LET a == ApiArrive("OPTIONS", p)
       IN  /\ a.do = "respond"
           /\ a.resp.status = 200 /\ a.resp.ended
           /\ a.resp.message = <<>> /\ a.resp.data = Null

C10_Witness ==
  /\ lastResp.method = "OPTIONS"
  /\ lastResp.overLimit
  /\ lastResp.param # <<>>
  /\ requestCache # EmptyMap

\* C11: every response a server handler sends carries the headers
\* Access-Control-Allow-Origin: *, Access-Control-Allow-Methods: GET, OPTIONS,
\* X-Content-Type-Options: nosniff and X-Frame-Options: DENY
C11_RequiredHeaders ==
  lastResp.handler # "none" =>
    {<<"Access-Control-Allow-Origin", "*">>,
     <<"Access-Control-Allow-Methods", "GET, OPTIONS">>,
     <<"X-Content-Type-Options", "nosniff">>,
     <<"X-Frame-Options", "DENY">>} \subseteq lastResp.resp.headers

\* the words of the error behind the response sent last: the upstream status
\* and body, or the message of the exception
RawErrorWords ==
  {lastResp.fail.body[i] : i \in DOMAIN lastResp.fail.body}
    \cup (IF lastResp.fail.kind = "http" THEN {StatusText(lastResp.fail.status)} ELSE {})
    \cup (IF lastResp.fail.kind = "parse" THEN {ParseMessage[i] : i \in DOMAIN ParseMessage}
          ELSE {})

\* C12: outside development mode no error response of a handler holds the raw
\* text of the underlying error: it has no details and its message contains no
\* word of the upstream status, the upstream body or the exception message
C12_NoRawErrorInProduction ==
  (nodeEnv # "development" /\ lastResp.handler # "none" /\ lastResp.resp.error) =>
    /\ lastResp.resp.details = Null
    /\ \A w \in RawErrorWords : ~Includes(lastResp.resp.message, w)

\* C13: the members of the mapped record are, in the original order, exactly
\* the entries of socios that have a non-empty name, and the empty list when
\* socios is missing
C13_MembersAreTheNamedSocios ==
  (lastResp.raw # Null /\ lastResp.resp.data # Null) =>
    LET socios == lastResp.raw[1].socios
    IN  lastResp.resp.data[1].members =
          IF socios.has THEN SelectSeq(socios.names, LAMBDA n : n # "") ELSE <<>>

NoTaxId(raw) == raw # Null /\ raw[1].cnpj = <<>> /\ raw[1].raiz = <<>>

\* C14, in every state: the script.js handler answers an upstream record
\* without taxId with an error status, never 200, and every entry of
\* requestCache holds a record with a non-empty taxId
C14_NoTaxIdIsAnError ==
  /\ (ScriptAnswered /\ NoTaxId(lastResp.raw)) =>
       /\ lastResp.resp.error
       /\ lastResp.resp.status >= 400
       /\ lastResp.resp.data = Null
  /\ \A k \in DOMAIN requestCache : requestCache[k].data.taxId # <<>>

\* C14, in every step: the step that answers an upstream record without
\* taxId leaves requestCache unchanged
C14_NoTaxIdKeepsCache ==
  (BagCardinality(inflight') < BagCardinality(inflight) /\ NoTaxId(lastResp'.raw)) =>
    requestCache' = requestCache

\* C14: an upstream success whose mapped record has no taxId is answered
\* with an error status and leaves requestCache unchanged, so that every
\* entry of requestCache has a non-empty taxId
C14_NoTaxIdNeverCached == []C14_NoTaxIdIsAnError /\ [][C14_NoTaxIdKeepsCache]_vars

C14_Witness ==
  /\ ScriptAnswered
  /\ NoTaxId(lastResp.raw)
  /\ lastResp.resp.status = 500
  /\ requestCache # EmptyMap

\* C15: right after a run of the periodic sweep requestCache has no entry
\* with now - timestamp >= CACHE_TTL and rateLimitMap no record with
\* timestamp < now - 60000, and the sweep has removed nothing that was valid
C15_SweepEvictsAllExpired ==
  [][Sweep =>
       /\ \A k \in DOMAIN requestCache' : now - requestCache'[k].timestamp < CACHE_TTL
       /\ \A k \in DOMAIN rateLimitMap' : rateLimitMap'[k] >= now - WINDOW_MS
       /\ \A k \in DOMAIN requestCache :
            now - requestCache[k].timestamp < CACHE_TTL =>
              k \in DOMAIN requestCache' /\ requestCache'[k] = requestCache[k]
       /\ \A k \in DOMAIN rateLimitMap :
            rateLimitMap[k] >= now - WINDOW_MS =>
              k \in DOMAIN rateLimitMap' /\ rateLimitMap'[k] = rateLimitMap[k]]_vars

\* the entries of the rate-limit map whose timestamp is inside the window of
\* a call at time t
InWindow(map, t) ==
  [k \in {x \in DOMAIN map : map[x] >= t - WINDOW_MS} |-> map[k]]

\* C16: a checkRateLimit call that returns false leaves the in-window entries
\* of rateLimitMap as they were; a call that returns true adds the entry keyed
\* clientId-now with value now and changes no other in-window entry
C16_RejectedCallRecordsNothing ==
  [][\A ip \in RateClients :
       RateCall(ip) =>
         IF rlLast'.allowed
         THEN InWindow(rateLimitMap', now) =
                MapSet(InWindow(rateLimitMap, now), RateKey(ip, now), now)
         ELSE InWindow(rateLimitMap', now) = InWindow(rateLimitMap, now)]_vars

\* a call has been rejected with the client's window full
C16_Witness ==
  /\ rlLast # NoCall
  /\ ~rlLast.allowed
  /\ Cardinality(DOMAIN InWindow(rateLimitMap, rlLast.at)) >= MAX_REQUESTS_PER_MINUTE

\* C17: the records a checkRateLimit call counts toward the limit are the
\* client's stored records with timestamp >= now - 60000 (one exactly 60000 ms
\* old included), and the call purges a record only when its timestamp is
\* < now - 60000, so every record the call keeps is one it counted
C17_KeptRecordsAreCounted ==
  [][\A ip \in RateClients :
       RateCall(ip) =>
         /\ rlLast'.count =
              Cardinality({k \in DOMAIN rateLimitMap :
                             StartsWith(k, ip) /\ rateLimitMap[k] >= now - WINDOW_MS})
         /\ \A k \in DOMAIN rateLimitMap :
              k \notin DOMAIN rateLimitMap' => rateLimitMap[k] < now - WINDOW_MS]_vars

-----------------------------------------------------------------------------
(* Two clients of the rate limiter, one identifier a prefix of the other *)

IsolationClients == {IP_A, IP_B}

\* the clock of this specification runs MaxIsolationBurst milliseconds
MaxIsolationBurst == 3

\* what the granted calls of IP_B in the WarmCalls milliseconds before
\* ServerStart leave in rateLimitMap
NeighbourMap ==
  [k \in {RateKey(IP_B, t) : t \in WarmTimes} |->
     CHOOSE t \in WarmTimes : RateKey(IP_B, t) = k]

IsolationInit ==
  /\ now = ServerStart
  /\ rateLimitMap = NeighbourMap
  /\ rlLast = NoCall
  /\ rlWindow = [ip \in RateClients |-> NoWindow]
  /\ CacheIdle
  /\ ServerIdle
  /\ UiIdle
  /\ ValidatorIdle

IsolationCall(ip) ==
  LET r == CheckRateLimit(rateLimitMap, ip, now)
  IN  /\ rateLimitMap' = r.map
      /\ rlLast' = [ip |-> ip, at |-> now, allowed |-> r.allowed, count |-> r.count]
      /\ UNCHANGED <<now, rlWindow, cacheVars, validatorVars, serverVars, uiVars>>

IsolationTick ==
  /\ now < ServerStart + MaxIsolationBurst
  /\ now' = now + 1
  /\ UNCHANGED <<rateVars, cacheVars, validatorVars, serverVars, uiVars>>

IsolationNext ==
  \/ \E ip \in IsolationClients : IsolationCall(ip)
  \/ IsolationTick

SpecIsolation == IsolationInit /\ [][IsolationNext]_vars

\* C19: the rate limiter isolates clients, also when one identifier is a
\* string prefix of another: a call of a client is rejected only when that
\* client's own records in the window reach the limit, whatever the others did
C19_ClientsAreIsolated ==
  (rlLast # NoCall /\ ~rlLast.allowed) =>
    RequestCountPrefixFree(rateLimitMap, rlLast.ip, rlLast.at - WINDOW_MS)
      >= MAX_REQUESTS_PER_MINUTE

\* C18: on every exit path of fetchCNPJData (success, non-OK upstream
\* response, body that fails to parse, network error, abort) the abort timer
\* has been cancelled or has fired: no timer of the call is pending once the
\* call has returned or thrown, and it has fired exactly on the abort path
C18_NoTimerPendingAfterFetch ==
  (lastResp.handler = "script" /\ lastResp.called) =>
    /\ lastResp.timer \in {"cleared", "fired"}
    /\ lastResp.timer = "fired" <=> lastResp.fail.kind = "abort"

\* a call has ended in the catch block before fetch resolved, with its timer
\* cancelled there
C18_Witness ==
  /\ lastResp.handler = "script"
  /\ lastResp.called
  /\ lastResp.fail.kind = "network"
  /\ lastResp.timer = "cleared"

\* C20 as stated: the client validator and the server validator give the
\* same verdict on every text, and the UI and the script.js handler accept
\* the same texts
C20_UiAndHandlerAgree ==
  verdict # NoVerdict =>
    /\ verdict.client <=> verdict.server.isValid
    /\ verdict.client <=> verdict.handler

\* C20: the client validator and the server validator give the same verdict
\* on every text, so a text the UI accepts is never rejected as invalid by the
\* script.js handler; a text the handler accepts is accepted by the UI when
\* it has at most 14 digits (the handler validates the first 14 digits only)
C20_ValidatorsEquivalent ==
  verdict # NoVerdict =>
    /\ verdict.client <=> verdict.server.isValid
    /\ verdict.client => verdict.handler
    /\ (verdict.handler /\ Len(StripNonDigits(verdict.of)) <= 14) => verdict.client

\* the formatted CNPJ 11.222.333/0001-81 has been accepted by both
\* validators and by the handler
C20_Witness ==
  /\ verdict.of = CNPJ_FORMATTED
  /\ verdict.client
  /\ verdict.server.isValid
  /\ verdict.handler

\* C21: in the UI, whenever a searchCNPJ request is in flight the loading
\* indicator is visible and the search button is disabled, whatever the
\* interleaving of clicks, Enter key presses and completions
C21_LoadingWhileInFlight ==
  searches # {} => page.loading /\ page.disabled

\* C22: in the UI, once every issued search has completed, the search whose
\* outcome (record or error message) was written to the page last is the most
\* recently submitted one: the response of an earlier search never lands
\* after, and over, the response of a later search
C22_LatestSearchIsShown ==
  (searches = {} /\ lastDone.id > 0) => lastDone.id = issued

====
